---- MODULE Spec2Model ----
(***************************************************************************)
(* A model of the SHA-Infinity hashing engine                              *)
(* (src/.blackroad/hashing/sha_infinity.py) and of the state manager       *)
(* (src/.blackroad/state/state-manager.py).                                *)
(*                                                                         *)
(* Text and bytes are sequences of characters.  A character is a tagged    *)
(* pair: <<"c", name>> is one literal character (one byte once encoded),   *)
(* and <<"h", input>> is the hex digest of the byte string `input`, kept   *)
(* as one block.  Two digest blocks are equal exactly when their inputs    *)
(* are equal: SHA-256 is modelled as collision-free.                       *)
(***************************************************************************)
EXTENDS Integers, Sequences, FiniteSets, TLC

VARIABLES
    args,     \* the arguments the engine was constructed with: [depth, salt]
    sm,       \* the StateManager and the stores of its backends
    engine,   \* the SHAInfinity instance: [depth, salt], fixed at construction
    fs,       \* the file system: path -> node
    clock,    \* what time.time() returns now
    pc,       \* "idle", a position inside create_integrity_manifest, or "done"
    call,     \* the operation called last, with its arguments
    ret,      \* what that operation returned or raised
    loc,      \* the locals of a running create_integrity_manifest
    prev      \* the previous completed operation: its call and its result

vars == <<args, sm, engine, fs, clock, pc, call, ret, loc, prev>>

----------------------------------------------------------------------------
(* Characters and strings *)

Lit(s) == <<"c", s>>

Str(seq) == [k \in 1..Len(seq) |-> Lit(seq[k])]

COLON == Lit(":")

\* The absent optional argument (Python's None) is the empty sequence, a
\* present one is a one-element sequence.
None == <<>>

Some(v) == <<v>>

Min(a, b) == IF a < b THEN a ELSE b

Max(a, b) == IF a > b THEN a ELSE b

\* str(i) inside an f-string, for i >= 0: the decimal digits of i.
DigitChar(d) == Lit(<<"0", "1", "2", "3", "4", "5", "6", "7", "8", "9">>[d + 1])

RECURSIVE Digits(_)
Digits(i) == IF i < 10 THEN <<DigitChar(i)>>
             ELSE Digits(i \div 10) \o <<DigitChar(i % 10)>>

\* str.encode('utf-8'), character by character: an ASCII character is one
\* byte, "é" (U+00E9) is the two bytes C3 A9; a digest block is ASCII hex.
EncodeChar(c) == IF c = Lit("é") THEN <<Lit("xC3"), Lit("xA9")>> ELSE <<c>>

RECURSIVE EncodeEach(_)
EncodeEach(s) ==
    IF s = <<>> THEN <<>> ELSE EncodeChar(Head(s)) \o EncodeEach(Tail(s))

\* ASCII text encodes to itself
Encode(s) == IF \A k \in 1..Len(s) : s[k] # Lit("é") THEN s ELSE EncodeEach(s)

\* hashlib.sha256(b).hexdigest()
HexDigest(b) == <<"h", b>>

\* An argument of type `bytes | str`: [type |-> "bytes" or "str", val |-> ...]
ToBytes(data) == IF data.type = "str" THEN Encode(data.val) ELSE data.val

----------------------------------------------------------------------------
(* SHAInfinity *)

DEFAULT_DEPTH == 7

MAX_DEPTH == 256

SALT_PREFIX == Str(<<"b", "l", "a", "c", "k", "r", "o", "a", "d", ":", ":">>)

\* SHAInfinity.__init__
NewEngineDepthUnclamped(depth) == depth

NewEngineDepth(depth) == Min(Max(depth, 1), MAX_DEPTH)

NewEngineSaltNoDefault(salt) == salt

NewEngineSalt(salt) == IF salt = <<>> THEN SALT_PREFIX ELSE salt

NewEngine(depth, salt) ==
    [depth |-> NewEngineDepth(depth), salt |-> NewEngineSalt(salt)]

\* SHAInfinity.sha256
Sha256(data) == <<HexDigest(ToBytes(data))>>

\* `depth or self.depth`: None and 0 are falsy
Iterations(self, depth) ==
    IF depth = None \/ depth = Some(0) THEN self.depth ELSE depth[1]

\* The digest of one chaining step:
\* hashlib.sha256(f"{self.salt}:{i}:{current_hash}".encode()).hexdigest()
StepHashNoIndex(self, i, current_hash) ==
    <<HexDigest(Encode(self.salt \o <<COLON>> \o <<COLON>> \o current_hash))>>

StepHash(self, i, current_hash) ==
    <<HexDigest(Encode(self.salt \o <<COLON>> \o Digits(i) \o <<COLON>>
                       \o current_hash))>>

\* len(range(start, stop)): how many times `for i in range(start, stop)` runs
\* its body.
RangeLen(start, stop) == IF stop > start THEN stop - start ELSE 0

\* `for i in range(start, stop): current_hash = <step i>`, the value of
\* current_hash after the loop.  The steps run in ascending order of i, each on
\* the digest the one before left.  The range is evaluated in two halves: the
\* first half's digest is computed (the test on its length evaluates it; a
\* hexdigest is always one block) and the second half starts from it, which
\* keeps the evaluation shallow for long chains.
RECURSIVE ShaLoop(_, _, _, _)
ShaLoop(self, current_hash, start, stop) ==
    IF start >= stop THEN current_hash
    ELSE IF stop = start + 1 THEN StepHash(self, start, current_hash)
    ELSE LET mid == (start + stop) \div 2
             first == ShaLoop(self, current_hash, start, mid)
         IN  IF Len(first) = 1 THEN ShaLoop(self, first, mid, stop) ELSE first

\* SHAInfinity.sha_infinity(data, depth): the digest returned, and how many
\* chaining iterations were run for it.
ShaInfinityRun(self, data, depth) ==
    LET bytes == ToBytes(data)
        iterations == Iterations(self, depth)
        initial == <<HexDigest(Encode(self.salt \o <<COLON, Lit("0"), COLON>>)
                               \o bytes)>>
    IN  [hash |-> ShaLoop(self, initial, 1, iterations + 1),
         iterations |-> RangeLen(1, iterations + 1)]

ShaInfinity(self, data, depth) == ShaInfinityRun(self, data, depth).hash

\* SHAInfinity.verify_chain:
\*   for depth in range(start, stop):
\*       if self.sha_infinity(data, depth=depth) == expected_hash:
\*           return (True, depth)
\*   return (False, -1)
\* The depths are tried in ascending order and the first match returns; the
\* range is evaluated in two halves, the second only when the first has no
\* match.
RECURSIVE VerifyLoop(_, _, _, _, _)
VerifyLoop(self, data, expected_hash, start, stop) ==
    IF start >= stop THEN <<FALSE, -1>>
    ELSE IF stop = start + 1
         THEN IF ShaInfinity(self, data, Some(start)) = expected_hash
              THEN <<TRUE, start>>
              ELSE <<FALSE, -1>>
    ELSE LET mid == (start + stop) \div 2
             first == VerifyLoop(self, data, expected_hash, start, mid)
         IN  IF first[1] THEN first
             ELSE VerifyLoop(self, data, expected_hash, mid, stop)

VerifyChainNoUpperEnd(self, data, expected_hash, max_depth) ==
    VerifyLoop(self, data, expected_hash, 1, Min(max_depth, MAX_DEPTH))

VerifyChainNoClamp(self, data, expected_hash, max_depth) ==
    VerifyLoop(self, data, expected_hash, 1, max_depth + 1)

VerifyChain(self, data, expected_hash, max_depth) ==
    VerifyLoop(self, data, expected_hash, 1, Min(max_depth, MAX_DEPTH) + 1)

----------------------------------------------------------------------------
(* Paths and the file system *)

\* A path is a sequence of components, each a string; str(path) joins them
\* with "/".  A node of the file system is
\*   [kind |-> "none"]                        nothing there
\*   [kind |-> "file", content |-> bytes]     a regular file
\*   [kind |-> "dir", entries |-> set]        a directory and all that is under
\*                                            it: [rel, kind, content] records,
\*                                            rel the path relative to it
NoNode == [kind |-> "none"]

FileNode(content) == [kind |-> "file", content |-> content]

DirNode(entries) == [kind |-> "dir", entries |-> entries]

SLASH == Lit("/")

NEWLINE == Lit("\n")

RECURSIVE Join(_, _)
Join(sep, strs) ==
    IF strs = <<>> THEN <<>>
    ELSE IF Len(strs) = 1 THEN strs[1]
    ELSE strs[1] \o sep \o Join(sep, Tail(strs))

\* str(path)
PathStr(path) == Join(<<SLASH>>, path)

\* Path.exists(), Path.is_file(), Path.is_dir()
Exists(node) == node.kind # "none"

IsFile(node) == node.kind = "file"

IsDir(node) == node.kind = "dir"

\* ord(c) of the characters that file names are made of here.  A digest block
\* inside a name has no single code point: no order is defined for it.
Ord(c) ==
    CASE c = NEWLINE -> 10
      [] c = Lit("-") -> 45
      [] c = SLASH -> 47
      [] c = Lit(":") -> 58
      [] c = Lit("A") -> 65
      [] c = Lit("B") -> 66
      [] c = Lit("M") -> 77
      [] c = Lit("a") -> 97
      [] c = Lit("b") -> 98

\* str.__lt__: the first differing character decides, a proper prefix is less
RECURSIVE StrLess(_, _)
StrLess(a, b) ==
    IF b = <<>> THEN FALSE
    ELSE IF a = <<>> THEN TRUE
    ELSE IF Head(a) = Head(b) THEN StrLess(Tail(a), Tail(b))
    ELSE Ord(Head(a)) < Ord(Head(b))

\* PurePath.__lt__: the lists of components are compared, component by
\* component
RECURSIVE PathLess(_, _)
PathLess(p, q) ==
    IF q = <<>> THEN FALSE
    ELSE IF p = <<>> THEN TRUE
    ELSE IF Head(p) = Head(q) THEN PathLess(Tail(p), Tail(q))
    ELSE StrLess(Head(p), Head(q))

\* sorted(...) of directory entries, by their paths: insertion of each element
\* after the elements that are not greater (a stable sort)
RECURSIVE Insert(_, _)
Insert(e, sorted) ==
    IF sorted = <<>> THEN <<e>>
    ELSE IF PathLess(e.rel, Head(sorted).rel) THEN <<e>> \o sorted
    ELSE <<Head(sorted)>> \o Insert(e, Tail(sorted))

RECURSIVE SortedFrom(_, _)
SortedFrom(seq, acc) ==
    IF seq = <<>> THEN acc ELSE SortedFrom(Tail(seq), Insert(Head(seq), acc))

Unsorted(seq) == seq

Sorted(seq) == SortedFrom(seq, <<>>)

\* The orders in which dirpath.glob("**/*") may yield the entries of a
\* directory: every order, each entry once
Enumerations(entries) ==
    {e \in [1..Cardinality(entries) -> entries] :
        \A i, j \in 1..Cardinality(entries) : i # j => e[i] # e[j]}

----------------------------------------------------------------------------
(* hash_file, hash_directory *)

FILES_LIMIT == 100

Ok(result) == [status |-> "ok", result |-> result]

Raised(error) == [status |-> "raised", error |-> error]

\* files_processed[:100]
FirstN(seq, n) == IF Len(seq) <= n THEN seq ELSE SubSeq(seq, 1, n)

Text(val) == [type |-> "str", val |-> val]

Bytes(val) == [type |-> "bytes", val |-> val]

\* SHAInfinity.hash_file, on the node the path resolves to at time `now`
HashFile(self, path, node, now) ==
    IF ~Exists(node) THEN Raised("FileNotFoundError")
    ELSE IF IsDir(node) THEN Raised("IsADirectoryError")   \* read_bytes()
    ELSE Ok([sha256 |-> Sha256(Bytes(node.content)),
             sha_infinity |-> ShaInfinity(self, Bytes(node.content), None),
             depth |-> self.depth,
             timestamp |-> now,
             metadata |-> [filename |-> path[Len(path)],
                           size |-> Len(node.content),
                           path |-> PathStr(path)]])

\* The loop of hash_directory over the sorted glob result: the entries that
\* are regular files, in that order
RECURSIVE RegularFiles(_)
RegularFiles(seq) ==
    IF seq = <<>> THEN <<>>
    ELSE IF Head(seq).kind = "file" THEN <<Head(seq)>> \o RegularFiles(Tail(seq))
    ELSE RegularFiles(Tail(seq))

\* f"{relative_path}:{file_hash}"
FileHashLine(e) == PathStr(e.rel) \o <<COLON>> \o Sha256(Bytes(e.content))

\* combined = "\n".join(file_hashes), for the glob order `enum`
Combined(enum) ==
    LET files == RegularFiles(Sorted(enum))
    IN  Join(<<NEWLINE>>, [k \in 1..Len(files) |-> FileHashLine(files[k])])

GLOB_ALL == <<Lit("**/*")>>

\* SHAInfinity.hash_directory with the default pattern, the glob yielding the
\* directory's entries in the order `enum`
HashDirectory(self, dirpath, node, enum, now) ==
    IF ~IsDir(node) THEN Raised("NotADirectoryError")
    ELSE LET files == RegularFiles(Sorted(enum))
             files_processed == [k \in 1..Len(files) |-> PathStr(files[k].rel)]
             combined == Combined(enum)
         IN  Ok([sha256 |-> Sha256(Text(combined)),
                 sha_infinity |-> ShaInfinity(self, Text(combined), None),
                 depth |-> self.depth,
                 timestamp |-> now,
                 metadata |-> [directory |-> PathStr(dirpath),
                               file_count |-> Len(files_processed),
                               files |-> FirstN(files_processed, FILES_LIMIT),
                               pattern |-> GLOB_ALL]])

\* SHAInfinity.hash_git_state, on what the four git commands print (stripped):
\* the state string, then the HashResult and the chaining iterations run for it
GitStateString(git) ==
    <<Lit("\nHEAD: ")>> \o git.head \o <<Lit("\nBRANCH: ")>> \o git.branch
    \o <<Lit("\nSTAGED:\n")>> \o git.staged
    \o <<Lit("\nWORKING:\n")>> \o git.working \o <<NEWLINE>>

HashGitState(self, git, now) ==
    LET state_string == GitStateString(git)
        run == ShaInfinityRun(self, Text(state_string), None)
    IN  [status |-> "ok",
         result |-> [sha256 |-> Sha256(Text(state_string)),
                     sha_infinity |-> run.hash,
                     depth |-> self.depth,
                     timestamp |-> now,
                     metadata |-> [head |-> git.head, branch |-> git.branch,
                                   has_staged_changes |-> git.staged # <<>>,
                                   has_working_changes |-> git.working # <<>>]],
         iterations |-> run.iterations]

\* __main__, the branch for an argument that is neither --git, --dir nor a
\* file: `depth` is int(sys.argv[2]) as given, `hasher` the engine built
\* from it
MainString(self, depth, input, now) ==
    LET run == ShaInfinityRun(self, Text(input), None)
    IN  [status |-> "ok",
         result |-> [sha256 |-> Sha256(Text(input)),
                     sha_infinity |-> run.hash,
                     depth |-> depth,
                     timestamp |-> now,
                     metadata |-> [input |-> FirstN(input, 100)]],
         iterations |-> run.iterations]

----------------------------------------------------------------------------
(* json.dumps(manifest["entries"], sort_keys=True) *)

QUOTE == Lit("\"")

\* A character inside a JSON string: newline, quote, backslash and non-ASCII
\* characters are written as escapes (each escape kept as one block)
EscapeChar(c) ==
    CASE c = NEWLINE -> Lit("\\n")
      [] c = QUOTE -> Lit("\\\"")
      [] c = Lit("\\") -> Lit("\\\\")
      [] c = Lit("é") -> Lit("\\u00e9")
      [] OTHER -> c

JsonString(str) == <<QUOTE>> \o [k \in 1..Len(str) |-> EscapeChar(str[k])] \o <<QUOTE>>

JsonInt(n) == Digits(n)

\* time.time() is a float: repr() of a whole number of seconds
JsonFloat(t) == Digits(t) \o <<Lit("."), Lit("0")>>

JsonList(items) == <<Lit("[")>> \o Join(<<Lit(","), Lit(" ")>>, items) \o <<Lit("]")>>

\* A dict, given as its <<key, value text>> pairs in the order of their keys
\* (sort_keys=True): {"k1": v1, "k2": v2}
JsonObject(pairs) ==
    <<Lit("{")>>
    \o Join(<<Lit(","), Lit(" ")>>,
            [k \in 1..Len(pairs) |->
                <<QUOTE, Lit(pairs[k][1]), QUOTE, COLON, Lit(" ")>> \o pairs[k][2]])
    \o <<Lit("}")>>

JsonMetadata(m) ==
    IF "filename" \in DOMAIN m
    THEN JsonObject(<< <<"filename", JsonString(m.filename)>>,
                       <<"path", JsonString(m.path)>>,
                       <<"size", JsonInt(m.size)>> >>)
    ELSE JsonObject(<< <<"directory", JsonString(m.directory)>>,
                       <<"file_count", JsonInt(m.file_count)>>,
                       <<"files", JsonList([k \in 1..Len(m.files) |->
                                               JsonString(m.files[k])])>>,
                       <<"pattern", JsonString(m.pattern)>> >>)

\* One manifest entry: {"path": ..., "type": ..., **result.to_dict()}
JsonEntry(e) ==
    JsonObject(<< <<"depth", JsonInt(e.depth)>>,
                  <<"metadata", JsonMetadata(e.metadata)>>,
                  <<"path", JsonString(e.path)>>,
                  <<"sha256", JsonString(e.sha256)>>,
                  <<"sha_infinity", JsonString(e.sha_infinity)>>,
                  <<"timestamp", JsonFloat(e.timestamp)>>,
                  <<"type", JsonString(<<Lit(e.type)>>)>> >>)

JsonDumps(entries) == JsonList([k \in 1..Len(entries) |-> JsonEntry(entries[k])])

\* HashResult.to_dict() merged into the entry of a path
ManifestEntry(path, type, result) ==
    [path |-> PathStr(path), type |-> type, sha256 |-> result.sha256,
     sha_infinity |-> result.sha_infinity, depth |-> result.depth,
     timestamp |-> result.timestamp, metadata |-> result.metadata]

\* The manifest create_integrity_manifest returns
Manifest(self, created, entries) ==
    [version |-> "1.0", algorithm |-> "sha-infinity", depth |-> self.depth,
     created |-> created, entries |-> entries,
     manifest_hash |-> ShaInfinity(self, Text(JsonDumps(entries)), None)]

\* Which branch of the manifest loop a path takes
BranchFilesOnly(node) == IF IsFile(node) THEN "file" ELSE "skip"

Branch(node) ==
    IF IsFile(node) THEN "file" ELSE IF IsDir(node) THEN "dir" ELSE "skip"

----------------------------------------------------------------------------
(* Inputs of the chaining operations *)

\* Engine depths asked for at construction
DepthArgs == {-3, 0, 2, DEFAULT_DEPTH, MAX_DEPTH, MAX_DEPTH + 44}

SaltArgs == {<<>>, Str(<<"s">>), SALT_PREFIX}

\* Explicit depth overrides of sha_infinity
Overrides == {None, Some(-1), Some(0), Some(1), Some(2), Some(3),
              Some(MAX_DEPTH), Some(MAX_DEPTH + 1)}

DataArgs == {[type |-> "bytes", val |-> Str(<<"x">>)],
             [type |-> "str", val |-> Str(<<"é">>)]}

\* verify_chain is called on a digest some sha_infinity call of this engine
\* produced, for the same data or for other data
ExpectedArgs ==
    {[data |-> [type |-> "bytes", val |-> Str(<<"x">>)], depth |-> n] :
        n \in {None, Some(-1), Some(1), Some(3), Some(MAX_DEPTH),
               Some(MAX_DEPTH + 1)}}
    \cup {[data |-> [type |-> "str", val |-> Str(<<"é">>)], depth |-> Some(2)]}

MaxDepthArgs == {-1, 0, 1, 2, 3, MAX_DEPTH + 44}

----------------------------------------------------------------------------
(* The chaining operations, each called once on a fresh engine *)

NoFs == <<>>

NoSm == <<>>

\* SHAInfinity(depth=d, salt=s)
Construct(d, s) ==
    /\ args = [depth |-> d, salt |-> s]
    /\ engine = NewEngine(d, s)
    /\ sm = NoSm

InitChain ==
    /\ fs = NoFs
    /\ clock = 0
    /\ pc = "idle"
    /\ call = [op |-> "new"]
    /\ ret = <<>>
    /\ loc = <<>>
    /\ prev = <<>>

Init ==
    /\ \E d \in DepthArgs, s \in SaltArgs : Construct(d, s)
    /\ InitChain

CallShaInfinity ==
    /\ pc = "idle"
    /\ \E data \in DataArgs, depth \in Overrides :
        /\ call' = [op |-> "sha_infinity", data |-> data, depth |-> depth]
        /\ ret' = ShaInfinityRun(engine, data, depth)
    /\ pc' = "done"
    /\ UNCHANGED <<args, sm, engine, fs, clock, loc, prev>>

\* What git prints for the repository
GitStates ==
    {[head |-> Str(<<"a">>), branch |-> Str(<<"b">>), staged |-> <<>>,
      working |-> <<>>],
     [head |-> Str(<<"a">>), branch |-> Str(<<"b">>), staged |-> Str(<<"x">>),
      working |-> Str(<<"y">>)]}

CallHashGitState ==
    /\ pc = "idle"
    /\ \E git \in GitStates :
        /\ call' = [op |-> "hash_git_state", git |-> git]
        /\ ret' = HashGitState(engine, git, clock)
    /\ pc' = "done"
    /\ UNCHANGED <<args, sm, engine, fs, clock, loc, prev>>

\* python sha_infinity.py <string> <depth>: the engine was built with
\* SHAInfinity(depth=depth), no salt
CallMainString ==
    /\ pc = "idle"
    /\ args.salt = <<>>
    /\ \E data \in DataArgs :
        /\ data.type = "str"
        /\ call' = [op |-> "main", argv |-> <<data.val, args.depth>>]
        /\ ret' = MainString(engine, args.depth, data.val, clock)
    /\ pc' = "done"
    /\ UNCHANGED <<args, sm, engine, fs, clock, loc, prev>>

Next == CallShaInfinity \/ CallHashGitState \/ CallMainString

Spec == Init /\ [][Next]_vars

\* verify_chain never reads the engine's own depth: one depth is enough
InitVerify ==
    /\ \E s \in {<<>>, Str(<<"s">>)} : Construct(DEFAULT_DEPTH, s)
    /\ InitChain

CallVerifyChain ==
    /\ pc = "idle"
    /\ \E data \in DataArgs, from \in ExpectedArgs, max_depth \in MaxDepthArgs :
        LET expected == ShaInfinity(engine, from.data, from.depth)
        IN  /\ call' = [op |-> "verify_chain", data |-> data,
                        expected_hash |-> expected, from |-> from,
                        max_depth |-> max_depth]
            /\ ret' = VerifyChain(engine, data, expected, max_depth)
    /\ pc' = "done"
    /\ UNCHANGED <<args, sm, engine, fs, clock, loc, prev>>

NextVerify == CallVerifyChain

SpecVerify == InitVerify /\ [][NextVerify]_vars

----------------------------------------------------------------------------
(* The file system the file operations run on *)

\* How far the clock advances
MaxClock == 1

fileA == <<Str(<<"A">>)>>

missingFile == <<Str(<<"M">>)>>

dirB == <<Str(<<"B">>)>>

TopPaths == {fileA, missingFile, dirB}

ContentX == Str(<<"x">>)

ContentY == Str(<<"y">>)

NameA == Str(<<"a">>)

NameB == Str(<<"b">>)

\* A legal file name: "a:" + sha256(b"x").hexdigest() + "\n" + "b"
NameColonNewline ==
    NameA \o <<COLON>> \o Sha256(Bytes(ContentX)) \o <<NEWLINE>> \o NameB

FileEntry(rel, content) == [rel |-> rel, kind |-> "file", content |-> content]

DirEntry(rel) == [rel |-> rel, kind |-> "dir", content |-> <<>>]

\* The trees dirB may hold
DirStates ==
    { {},
      {FileEntry(<<NameA>>, ContentX)},
      {FileEntry(<<NameA>>, ContentX), FileEntry(<<NameB>>, ContentY)},
      {FileEntry(<<NameA>>, ContentY), FileEntry(<<NameB>>, ContentY)},
      {FileEntry(<<NameColonNewline>>, ContentY)},
      {FileEntry(<<Str(<<"a", "-", "b">>)>>, ContentX), DirEntry(<<NameA>>),
       FileEntry(<<NameA, NameB>>, ContentY)} }

\* The path lists create_integrity_manifest is called with
PathLists ==
    { <<>>, <<missingFile>>, <<fileA, missingFile, dirB>>, <<dirB, fileA>>,
      <<fileA, fileA>> }

InitFs ==
    /\ Construct(DEFAULT_DEPTH, <<>>)
    /\ \E entries \in DirStates :
         fs = [p \in TopPaths |->
                 IF p = fileA THEN FileNode(ContentX)
                 ELSE IF p = dirB THEN DirNode(entries)
                 ELSE NoNode]
    /\ clock = 0
    /\ pc = "idle"
    /\ call = [op |-> "new"]
    /\ ret = <<>>
    /\ loc = <<>>
    /\ prev = <<>>

----------------------------------------------------------------------------
(* The file operations *)

\* time passes
Tick ==
    /\ pc # "done"
    /\ clock < MaxClock
    /\ clock' = clock + 1
    /\ UNCHANGED <<args, sm, engine, fs, pc, call, ret, loc, prev>>

\* another process removes a regular file
Unlink ==
    /\ pc # "done"
    /\ \E p \in TopPaths :
         /\ IsFile(fs[p])
         /\ fs' = [fs EXCEPT ![p] = NoNode]
    /\ UNCHANGED <<args, sm, engine, clock, pc, call, ret, loc, prev>>

\* hash_file(path), start to end
DoHashFile(path) ==
    /\ call' = [op |-> "hash_file", path |-> path, fs0 |-> fs]
    /\ ret' = HashFile(engine, path, fs[path], clock)
    /\ pc' = "done"
    /\ UNCHANGED <<args, sm, engine, fs, clock, loc>>

\* hash_directory(path), start to end, the glob yielding some order
DoHashDirectory(path) ==
    /\ \E enum \in (IF IsDir(fs[path]) THEN Enumerations(fs[path].entries)
                    ELSE {<<>>}) :
         /\ call' = [op |-> "hash_directory", path |-> path, enum |-> enum,
                     fs0 |-> fs]
         /\ ret' = HashDirectory(engine, path, fs[path], enum, clock)
    /\ pc' = "done"
    /\ UNCHANGED <<args, sm, engine, fs, clock, loc>>

\* create_integrity_manifest(paths): the manifest dict is set up
DoCreateIntegrityManifest(paths) ==
    /\ call' = [op |-> "create_integrity_manifest", paths |-> paths, fs0 |-> fs]
    /\ loc' = [i |-> 1, created |-> clock, entries |-> <<>>, result |-> <<>>]
    /\ ret' = <<>>
    /\ pc' = "for"
    /\ UNCHANGED <<args, sm, engine, fs, clock>>

CallHashFile ==
    /\ pc = "idle"
    /\ \E path \in TopPaths : DoHashFile(path)
    /\ UNCHANGED prev

CallHashDirectory ==
    /\ pc = "idle"
    /\ \E path \in TopPaths : DoHashDirectory(path)
    /\ UNCHANGED prev

CallCreateIntegrityManifest ==
    /\ pc = "idle"
    /\ \E paths \in PathLists : DoCreateIntegrityManifest(paths)
    /\ UNCHANGED prev

\* for path in paths: if path.is_file() ... elif path.is_dir() ... else continue
ManifestFor ==
    /\ pc = "for"
    /\ loc.i <= Len(call.paths)
    /\ LET branch == Branch(fs[call.paths[loc.i]])
       IN  IF branch = "skip"
           THEN /\ loc' = [loc EXCEPT !.i = @ + 1]
                /\ pc' = "for"
           ELSE /\ loc' = loc
                /\ pc' = branch
    /\ UNCHANGED <<args, sm, engine, fs, clock, call, ret, prev>>

\* result = self.hash_file(path); an exception leaves the build
ManifestHashFile ==
    /\ pc = "file"
    /\ LET path == call.paths[loc.i]
           r == HashFile(engine, path, fs[path], clock)
       IN  IF r.status = "ok"
           THEN /\ loc' = [loc EXCEPT !.result = r.result]
                /\ pc' = "append"
                /\ ret' = ret
           ELSE /\ ret' = r
                /\ pc' = "done"
                /\ loc' = loc
    /\ UNCHANGED <<args, sm, engine, fs, clock, call, prev>>

\* result = self.hash_directory(path)
ManifestHashDirectory ==
    /\ pc = "dir"
    /\ LET path == call.paths[loc.i]
       IN  \E enum \in (IF IsDir(fs[path]) THEN Enumerations(fs[path].entries)
                        ELSE {<<>>}) :
             LET r == HashDirectory(engine, path, fs[path], enum, clock)
             IN  IF r.status = "ok"
                 THEN /\ loc' = [loc EXCEPT !.result = r.result]
                      /\ pc' = "append"
                      /\ ret' = ret
                 ELSE /\ ret' = r
                      /\ pc' = "done"
                      /\ loc' = loc
    /\ UNCHANGED <<args, sm, engine, fs, clock, call, prev>>

\* manifest["entries"].append({"path": ..., "type": "file" if path.is_file()
\* else "directory", **result.to_dict()})
ManifestAppend ==
    /\ pc = "append"
    /\ LET path == call.paths[loc.i]
           type == IF IsFile(fs[path]) THEN "file" ELSE "directory"
       IN  loc' = [loc EXCEPT !.entries = Append(@, ManifestEntry(path, type, loc.result)),
                              !.i = @ + 1,
                              !.result = <<>>]
    /\ pc' = "for"
    /\ UNCHANGED <<args, sm, engine, fs, clock, call, ret, prev>>

\* after the loop: manifest_hash over the serialized entries, return manifest
ManifestReturn ==
    /\ pc = "for"
    /\ loc.i > Len(call.paths)
    /\ ret' = Ok(Manifest(engine, loc.created, loc.entries))
    /\ pc' = "done"
    /\ UNCHANGED <<args, sm, engine, fs, clock, call, loc, prev>>

\* The caller runs the operation that just returned once more, with the same
\* arguments
Rerun ==
    /\ pc = "done"
    /\ prev = <<>>
    /\ ret.status = "ok"
    /\ prev' = [call |-> call, ret |-> ret]
    /\ CASE call.op = "hash_file" -> DoHashFile(call.path)
         [] call.op = "hash_directory" -> DoHashDirectory(call.path)
         [] call.op = "create_integrity_manifest" ->
                DoCreateIntegrityManifest(call.paths)

NextFs ==
    \/ Tick
    \/ Unlink
    \/ CallHashFile
    \/ CallHashDirectory
    \/ CallCreateIntegrityManifest
    \/ ManifestFor
    \/ ManifestHashFile
    \/ ManifestHashDirectory
    \/ ManifestAppend
    \/ ManifestReturn
    \/ Rerun

SpecFs == InitFs /\ [][NextFs]_vars

----------------------------------------------------------------------------
(* state-manager.py: records, keys, the three backends *)

\* StateStatus(value) and status.value
StateStatus(value) == [value |-> value]

StatusValue(status) == status.value

\* bool(x) of an optional string: None and "" are falsy
Truthy(opt) == opt # None /\ opt[1] # <<>>

\* StateRecord(...) with the dataclass defaults
StateRecord(id, entity_type, name, status, metadata, github_ref, salesforce_id, now) ==
    [id |-> id, entity_type |-> entity_type, name |-> name,
     status |-> status, metadata |-> metadata, github_ref |-> github_ref,
     salesforce_id |-> salesforce_id, cloudflare_key |-> None,
     created_at |-> now, updated_at |-> now, sha_hash |-> None]

\* StateRecord.to_dict / StateRecord.from_dict
ToDict(record) == [record EXCEPT !.status = StatusValue(record.status)]

FromDict(data) == [data EXCEPT !.status = StateStatus(data.status)]

UNDERSCORE == Lit("_")

\* str.split(sep) for a one-character separator
RECURSIVE SplitFrom(_, _, _)
SplitFrom(s, sep, part) ==
    IF s = <<>> THEN <<part>>
    ELSE IF Head(s) = sep THEN <<part>> \o SplitFrom(Tail(s), sep, <<>>)
    ELSE SplitFrom(Tail(s), sep, Append(part, Head(s)))

Split(s, sep) == SplitFrom(s, sep, <<>>)

\* str.replace(old, new) for one-character strings
Replace(s, old, new) == [k \in 1..Len(s) |-> IF s[k] = old THEN new ELSE s[k]]

\* f"{record.entity_type}:{record.id}"
Key(entity_type, id) == entity_type \o <<COLON>> \o id

\* `record.cloudflare_key or f"{record.entity_type}:{record.id}"`
RecordKey(record) ==
    IF Truthy(record.cloudflare_key) THEN record.cloudflare_key[1]
    ELSE Key(record.entity_type, record.id)

\* dict[key] = value on a store that maps strings to values
Store(store, key, value) ==
    [k \in DOMAIN store \cup {key} |-> IF k = key THEN value ELSE store[k]]

NoStore == <<>>

\* LocalFileBackend._file_path, below base_path
FilePath(key) ==
    Replace(Replace(key, COLON, UNDERSCORE), SLASH, UNDERSCORE)
        \o <<Lit(".json")>>

\* LocalFileBackend.get
LocalGet(files, key) ==
    IF FilePath(key) \in DOMAIN files
    THEN Some(FromDict(files[FilePath(key)]))
    ELSE None

\* LocalFileBackend.put: the record is stamped, then written as it is now
LocalPut(files, record, now) ==
    LET key == RecordKey(record)
        stamped == [record EXCEPT !.cloudflare_key = Some(key),
                                  !.updated_at = now]
    IN  [ok |-> TRUE, record |-> stamped,
         files |-> Store(files, FilePath(key), ToDict(stamped))]

\* LocalFileBackend.list(): the records of the files of base_path
LocalList(files) == {FromDict(files[p]) : p \in DOMAIN files}

\* CloudflareKVBackend.get; `up` says whether the request is answered
CloudflareGet(kv, key, up) ==
    IF up /\ key \in DOMAIN kv THEN Some(FromDict(kv[key])) ELSE None

\* CloudflareKVBackend.put: the record is stamped before the request
CloudflarePut(kv, record, now, up) ==
    LET key == RecordKey(record)
        stamped == [record EXCEPT !.cloudflare_key = Some(key),
                                  !.updated_at = now]
    IN  [ok |-> up, record |-> stamped,
         kv |-> IF up THEN Store(kv, key, ToDict(stamped)) ELSE kv]

NAME_LIMIT == 80

\* SalesforceBackend._object_name
ObjectName(entity_type) ==
    IF entity_type = <<Lit("project")>> THEN "Project__c"
    ELSE IF entity_type = <<Lit("task")>> THEN "Task__c"
    ELSE IF entity_type = <<Lit("integration")>> THEN "Integration__c"
    ELSE IF entity_type = <<Lit("deployment")>> THEN "Deployment__c"
    ELSE "Task__c"

\* The Id Salesforce gives to the n-th object it creates
SfId(n) == <<Lit("s")>> \o Digits(n)

\* sf_data of SalesforceBackend.put
SfData(record, now) ==
    [Name |-> FirstN(record.name, NAME_LIMIT),
     Status__c |-> StatusValue(record.status),
     GitHub_Ref__c |-> record.github_ref,
     SHA_Hash__c |-> record.sha_hash,
     Last_Sync__c |-> now]

\* The objects of Salesforce with this Id and object name
SfFind(sf, obj_name, sf_id) ==
    {n \in 1..Len(sf) : sf[n].Id = sf_id /\ sf[n].type = obj_name}

\* response.json() of a GET of one object, as (key, value) pairs
SfJson(obj) ==
    <<<<"Id", obj.Id>>, <<"Name", obj.fields.Name>>,
      <<"Status__c", obj.fields.Status__c>>,
      <<"GitHub_Ref__c", obj.fields.GitHub_Ref__c>>,
      <<"SHA_Hash__c", obj.fields.SHA_Hash__c>>,
      <<"Last_Sync__c", obj.fields.Last_Sync__c>>>>

\* SalesforceBackend.get
SalesforceGet(sf, key, now, up) ==
    LET parts == Split(key, COLON)
    IN  IF Len(parts) # 2 THEN None
        ELSE LET entity_type == parts[1]
                 sf_id == parts[2]
                 found == SfFind(sf, ObjectName(entity_type), sf_id)
             IN  IF up /\ found # {}
                 THEN LET obj == sf[CHOOSE n \in found : TRUE]
                      IN  Some(StateRecord(obj.Id, entity_type,
                                           obj.fields.Name,
                                           StateStatus(obj.fields.Status__c),
                                           SfJson(obj),
                                           obj.fields.GitHub_Ref__c,
                                           Some(obj.Id), now))
                 ELSE None

\* SalesforceBackend.put: PATCH of the object named by record.salesforce_id,
\* POST of a new object without one; `created` lists, per object, the id of
\* the record whose put created it
SalesforcePut(sf, created, record, now, up) ==
    LET obj_name == ObjectName(record.entity_type)
        sf_data == SfData(record, now)
    IN  IF Truthy(record.salesforce_id)
        THEN LET found == SfFind(sf, obj_name, record.salesforce_id[1])
             IN  IF up /\ found # {}
                 THEN [ok |-> TRUE, record |-> record, created |-> created,
                       sf |-> [n \in 1..Len(sf) |->
                                 IF n \in found
                                 THEN [sf[n] EXCEPT !.fields = sf_data]
                                 ELSE sf[n]]]
                 ELSE [ok |-> FALSE, record |-> record, created |-> created,
                       sf |-> sf]
        ELSE IF up
             THEN LET new_id == SfId(Len(sf) + 1)
                  IN  [ok |-> TRUE,
                       record |-> [record EXCEPT !.salesforce_id = Some(new_id)],
                       created |-> Append(created, record.id),
                       sf |-> Append(sf, [Id |-> new_id, type |-> obj_name,
                                          fields |-> sf_data])]
             ELSE [ok |-> FALSE, record |-> record, created |-> created,
                   sf |-> sf]

----------------------------------------------------------------------------
(* state-manager.py: StateManager *)

\* StateManager.__init__: local is appended, Cloudflare is inserted in front
\* of it, Salesforce is appended after it; `cloudflare` and `salesforce` say
\* whether the backend is asked for and its token is in the environment
Backends(cloudflare, salesforce) ==
    LET local == <<"local">>
        with_cf == IF cloudflare THEN <<"cloudflare">> \o local ELSE local
    IN  IF salesforce THEN Append(with_cf, "salesforce") ELSE with_cf

\* The manager and the three stores behind it: the files of base_path, the
\* KV namespace, the objects of Salesforce (the n-th has Id SfId(n));
\* `uuids` counts the ids drawn by create_task, `ops` the calls made
NewStateManager(cloudflare, salesforce) ==
    [backends |-> Backends(cloudflare, salesforce),
     files |-> NoStore, kv |-> NoStore, sf |-> <<>>, created |-> <<>>,
     uuids |-> 0, ops |-> 0]

\* backend.get(key), on the stores of `st`; up[b] says whether backend b
\* answers the requests of this call
BackendGet(st, backend, key, now, up) ==
    CASE backend = "local" -> LocalGet(st.files, key)
      [] backend = "cloudflare" -> CloudflareGet(st.kv, key, up[backend])
      [] backend = "salesforce" ->
            SalesforceGet(st.sf, key, now, up[backend])

\* the loop of StateManager.get over self.backends
RECURSIVE GetFrom(_, _, _, _, _)
GetFrom(st, backends, key, now, up) ==
    IF backends = <<>> THEN None
    ELSE LET record == BackendGet(st, Head(backends), key, now, up)
         IN  IF record # None THEN record
             ELSE GetFrom(st, Tail(backends), key, now, up)

\* StateManager.get
SmGet(st, key, now, up) == GetFrom(st, st.backends, key, now, up)

\* backend.put(record): the result, the record object after the call and
\* the stores after the call
BackendPut(st, backend, record, now, up) ==
    CASE backend = "local" ->
            LET r == LocalPut(st.files, record, now)
            IN  [ok |-> r.ok, record |-> r.record,
                 st |-> [st EXCEPT !.files = r.files]]
      [] backend = "cloudflare" ->
            LET r == CloudflarePut(st.kv, record, now, up[backend])
            IN  [ok |-> r.ok, record |-> r.record,
                 st |-> [st EXCEPT !.kv = r.kv]]
      [] backend = "salesforce" ->
            LET r == SalesforcePut(st.sf, st.created, record, now, up[backend])
            IN  [ok |-> r.ok, record |-> r.record,
                 st |-> [st EXCEPT !.sf = r.sf, !.created = r.created]]

\* the loop of StateManager.put over self.backends: one record object goes
\* through the backends in order
RECURSIVE PutTo(_, _, _, _, _, _)
PutTo(st, backends, record, now, up, success) ==
    IF backends = <<>>
    THEN [success |-> success, record |-> record, st |-> st]
    ELSE LET r == BackendPut(st, Head(backends), record, now, up)
         IN  PutTo(r.st, Tail(backends), r.record, now, up, success /\ r.ok)

\* StateManager.put
SmPut(st, record, now, up) == PutTo(st, st.backends, record, now, up, TRUE)

\* the inner loop of StateManager.sync for one record: every backend but
\* local gets a put, whose result is dropped, and the counter goes up;
\* `puts` lists what each put returned
RECURSIVE SyncRecord(_, _, _, _, _, _)
SyncRecord(acc, backends, record, now, up, puts) ==
    IF backends = <<>> THEN [acc |-> acc, puts |-> puts]
    ELSE IF Head(backends) = "local"
    THEN SyncRecord(acc, Tail(backends), record, now, up, puts)
    ELSE LET r == BackendPut(acc.st, Head(backends), record, now, up)
         IN  SyncRecord([st |-> r.st,
                         report |-> [acc.report EXCEPT !.synced = @ + 1]],
                        Tail(backends), r.record, now, up,
                        Append(puts, [record |-> record.id,
                                      backend |-> Head(backends),
                                      ok |-> r.ok]))

\* the outer loop of StateManager.sync over local_records
RECURSIVE SyncRecords(_, _, _, _, _)
SyncRecords(acc, records, now, up, puts) ==
    IF records = <<>> THEN [acc |-> acc, puts |-> puts]
    ELSE LET r == SyncRecord(acc, acc.st.backends, Head(records), now, up,
                             puts)
         IN  SyncRecords(r.acc, Tail(records), now, up, r.puts)

\* StateManager.sync, with self.local.list() giving `local_records`
SmSync(st, local_records, now, up) ==
    LET report == [timestamp |-> now, synced |-> 0, conflicts |-> <<>>,
                   errors |-> <<>>]
        r == SyncRecords([st |-> st, report |-> report], local_records, now,
                         up, <<>>)
    IN  [report |-> r.acc.report, st |-> r.acc.st, puts |-> r.puts]

\* str(uuid.uuid4())[:8], the n-th id drawn
UuidId(n) == <<Lit("u")>> \o Digits(n)

TASK == <<Lit("task")>>

\* StateManager.create_task
CreateTask(st, name, github_ref, now, up) ==
    LET record == StateRecord(UuidId(st.uuids + 1), TASK, name,
                              StateStatus("todo"), <<>>, github_ref, None,
                              now)
        r == SmPut([st EXCEPT !.uuids = @ + 1], record, now, up)
    IN  [record |-> r.record, st |-> r.st]

\* StateManager.update_status
UpdateStatus(st, key, status, now, up) ==
    LET got == SmGet(st, key, now, up)
    IN  IF got # None
        THEN LET record == [got[1] EXCEPT !.status = status,
                                          !.updated_at = now]
                 r == SmPut(st, record, now, up)
             IN  [ok |-> r.success, st |-> r.st]
        ELSE [ok |-> FALSE, st |-> st]

----------------------------------------------------------------------------
(* Calls of the state manager *)

MaxOps == 3

NoEngine == <<>>

\* The answers of the remote backends during one call
Outcomes(backends) ==
    [{backends[k] : k \in DOMAIN backends} \ {"local"} -> BOOLEAN]

MissingKey == Key(TASK, <<Lit("zz")>>)

\* The keys a caller asks for: of the tasks created, of the Salesforce
\* objects, and one that names nothing
KeyArgs(st) ==
    {Key(TASK, UuidId(n)) : n \in 1..st.uuids}
        \cup {Key(TASK, SfId(n)) : n \in 1..Len(st.sf)}
        \cup {MissingKey}

NameArgs == {Str(<<"n">>)}

StatusArgs == {StateStatus("done")}

InitSm ==
    /\ \E cloudflare, salesforce \in BOOLEAN :
        /\ args = [cloudflare |-> cloudflare, salesforce |-> salesforce]
        /\ sm = NewStateManager(cloudflare, salesforce)
    /\ engine = NoEngine
    /\ InitChain

CallGet ==
    /\ sm.ops < MaxOps
    /\ \E key \in KeyArgs(sm), up \in Outcomes(sm.backends) :
        /\ call' = [op |-> "get", key |-> key, up |-> up]
        /\ ret' = [record |-> SmGet(sm, key, clock, up)]
    /\ sm' = [sm EXCEPT !.ops = @ + 1]
    /\ UNCHANGED <<args, engine, fs, clock, pc, loc, prev>>

CallCreateTask ==
    /\ sm.ops < MaxOps
    /\ \E name \in NameArgs, up \in Outcomes(sm.backends) :
        LET r == CreateTask(sm, name, None, clock, up)
        IN  /\ call' = [op |-> "create_task", name |-> name, up |-> up]
            /\ ret' = [record |-> r.record]
            /\ sm' = [r.st EXCEPT !.ops = @ + 1]
    /\ UNCHANGED <<args, engine, fs, clock, pc, loc, prev>>

CallUpdateStatus ==
    /\ sm.ops < MaxOps
    /\ \E key \in KeyArgs(sm), status \in StatusArgs,
          up \in Outcomes(sm.backends) :
        LET r == UpdateStatus(sm, key, status, clock, up)
        IN  /\ call' = [op |-> "update_status", key |-> key,
                        status |-> status, up |-> up]
            /\ ret' = [ok |-> r.ok]
            /\ sm' = [r.st EXCEPT !.ops = @ + 1]
    /\ UNCHANGED <<args, engine, fs, clock, pc, loc, prev>>

\* os.listdir gives the files in any order
CallSync ==
    /\ sm.ops < MaxOps
    /\ \E local_records \in Enumerations(LocalList(sm.files)),
          up \in Outcomes(sm.backends) :
        LET r == SmSync(sm, local_records, clock, up)
        IN  /\ call' = [op |-> "sync", up |-> up]
            /\ ret' = [report |-> r.report, puts |-> r.puts]
            /\ sm' = [r.st EXCEPT !.ops = @ + 1]
    /\ UNCHANGED <<args, engine, fs, clock, pc, loc, prev>>

NextSm == CallGet \/ CallCreateTask \/ CallUpdateStatus \/ CallSync

SpecSm == InitSm /\ [][NextSm]_vars

----------------------------------------------------------------------------
(* Claims about the chaining operations *)

IsDigest(h) == Len(h) = 1 /\ h[1][1] = "h"

\* The digest that digest h was computed from, k chaining steps back: the
\* last character of the hashed text, k times over (<<>> when h is not a
\* digest of a text that ends with a digest).
RECURSIVE Inner(_, _)
Inner(h, k) ==
    IF k = 0 THEN h
    ELSE IF k = 1
         THEN IF IsDigest(h) /\ h[1][2] # <<>> THEN <<h[1][2][Len(h[1][2])]>>
              ELSE <<>>
    ELSE LET half == Inner(h, k \div 2)
         IN  IF half = <<>> THEN <<>> ELSE Inner(half, k - (k \div 2))

\* The iteration count a sha_infinity call asks for, when it is in 1..256:
\* the explicit depth, or the engine's depth when none is given.
AskedDepth ==
    IF call.depth = None THEN engine.depth ELSE call.depth[1]

\* C1: sha_infinity with an iteration count n in 1..256 returns h_n, where
\* h_0 = SHA256(salt + ":0:" + bytes) and h_i = SHA256(salt + ":" + i + ":" +
\* h_(i-1)) for i = 1..n: n + 1 digests, each step's text carrying its own
\* index, the result being the last one.
ShaInfinityIsChain ==
    (call.op = "sha_infinity" /\ AskedDepth \in 1..MAX_DEPTH) =>
        LET n == AskedDepth
            s == Encode(engine.salt)
            h == [i \in 0..n |-> Inner(ret.hash, n - i)]
        IN  /\ h[0] = <<HexDigest(s \o <<COLON, Lit("0"), COLON>>
                                   \o ToBytes(call.data))>>
            /\ \A i \in 1..n :
                  h[i] = <<HexDigest(s \o <<COLON>> \o Digits(i) \o <<COLON>>
                                     \o h[i - 1])>>
            /\ ret.hash = h[n]

ShaInfinityIsChainWitness ==
    /\ call.op = "sha_infinity"
    /\ call.depth = Some(MAX_DEPTH)
    /\ call.data.type = "str"
    /\ ret.iterations = MAX_DEPTH

\* C2: every sha_infinity call runs between 1 and MAX_DEPTH chaining
\* iterations, whatever depth the engine was constructed with and whatever
\* explicit depth is passed.
IterationsWithinMaxDepth ==
    call.op = "sha_infinity" => ret.iterations \in 1..MAX_DEPTH

\* C3: verify_chain returns (True, d) for the smallest d in
\* 1..min(max_depth, 256) with sha_infinity(data, d) = expected, and
\* (False, -1) when no depth of that range matches.
VerifyChainFindsSmallest ==
    call.op = "verify_chain" =>
        LET top == Min(call.max_depth, MAX_DEPTH)
            Matches(d) ==
                ShaInfinity(engine, call.data, Some(d)) = call.expected_hash
        IN  \/ /\ ret[1] = TRUE
               /\ ret[2] \in 1..top
               /\ Matches(ret[2])
               /\ \A d \in 1..(ret[2] - 1) : ~Matches(d)
            \/ /\ ret = <<FALSE, -1>>
               /\ \A d \in 1..top : ~Matches(d)

VerifyChainFindsSmallestWitness ==
    /\ call.op = "verify_chain"
    /\ call.max_depth > MAX_DEPTH
    /\ ret = <<TRUE, MAX_DEPTH>>

\* C4: verify_chain(b, sha_infinity(b, d), max_depth) returns (True, d) for
\* every d in 1..256 and every max_depth >= d.
VerifyRoundTrip ==
    (/\ call.op = "verify_chain"
     /\ ToBytes(call.data) = ToBytes(call.from.data)
     /\ call.from.depth # None
     /\ call.from.depth[1] \in 1..MAX_DEPTH
     /\ call.max_depth >= call.from.depth[1])
    => ret = <<TRUE, call.from.depth[1]>>

VerifyRoundTripWitness ==
    /\ call.op = "verify_chain"
    /\ call.data = call.from.data
    /\ call.from.depth = Some(3)
    /\ call.max_depth = 3
    /\ ret = <<TRUE, 3>>

\* C11: two engines constructed with the same depth and two different salt
\* strings (the empty string included) give different sha_infinity digests
\* for the same bytes.
SaltsSeparate ==
    call.op = "sha_infinity" =>
        \A other \in SaltArgs :
            other # args.salt =>
                ShaInfinity(NewEngine(args.depth, other), call.data, call.depth)
                    # ret.hash

\* C13: every HashResult carries as depth a positive integer that is the
\* number of chaining iterations its sha_infinity was computed with; here for
\* hash_git_state and for the command line's literal-string branch.
DepthFieldIsIterations ==
    call.op \in {"hash_git_state", "main"} =>
        /\ ret.result.depth >= 1
        /\ ret.result.depth = ret.iterations

----------------------------------------------------------------------------
(* Claims about the file operations *)

ManifestDone == pc = "done" /\ call.op = "create_integrity_manifest"

\* No file was removed since the operation that just ended was called
\* (removals are never undone)
FsUnchanged == call.fs0 = fs

\* C5: over a file system that does not change during the build,
\* create_integrity_manifest returns a manifest with exactly one entry per
\* input path that is a regular file or a directory, in input order,
\* duplicates kept; a path that is neither gives no entry and no error.
ManifestEntriesAreExistingPaths ==
    (ManifestDone /\ FsUnchanged) =>
        LET IsThere(p) == fs[p].kind \in {"file", "dir"}
            kept == SelectSeq(call.paths, IsThere)
        IN  /\ ret.status = "ok"
            /\ Len(ret.result.entries) = Len(kept)
            /\ \A k \in 1..Len(kept) :
                 /\ ret.result.entries[k].path = PathStr(kept[k])
                 /\ ret.result.entries[k].type =
                      (IF fs[kept[k]].kind = "file" THEN "file" ELSE "directory")

ManifestEntriesAreExistingPathsWitness ==
    /\ ManifestDone
    /\ FsUnchanged
    /\ call.paths = <<fileA, missingFile, dirB>>
    /\ ret.status = "ok"
    /\ Len(ret.result.entries) = 2
    /\ ret.result.entries[2].type = "directory"

\* The digests an operation's result carries
DigestsOf(r) ==
    IF "manifest_hash" \in DOMAIN r
    THEN <<r.manifest_hash,
           [k \in 1..Len(r.entries) |->
               <<r.entries[k].sha256, r.entries[k].sha_infinity>>]>>
    ELSE <<r.sha256, r.sha_infinity>>

\* C6: the same operation run twice with the same engine over unchanged
\* content, at whatever clock readings, yields the same digests: sha256 and
\* sha_infinity of hash_file and hash_directory, and the manifest_hash of
\* create_integrity_manifest.
DigestsIgnoreTime ==
    (pc = "done" /\ prev # <<>> /\ ret.status = "ok" /\ prev.call.fs0 = fs) =>
        DigestsOf(prev.ret.result) = DigestsOf(ret.result)

\* C7: hash_file fails with FileNotFoundError whenever the path is not an
\* existing regular file, a directory included.
HashFileNotFound ==
    (call.op = "hash_file" /\ ~IsFile(call.fs0[call.path])) =>
        ret = Raised("FileNotFoundError")

\* C8: create_integrity_manifest always completes and returns a manifest,
\* also when a file is removed between the build's is_file() check and
\* hash_file's read.
ManifestSurvivesNotFound ==
    ManifestDone => ret.status = "ok"

\* C9: hash_directory gives the same combined string, sha256, sha_infinity,
\* file_count and files list for every order in which the glob may yield the
\* directory's entries.
DirectoryOrderInvariant ==
    (call.op = "hash_directory" /\ ret.status = "ok") =>
        \A e \in Enumerations(call.fs0[call.path].entries) :
            LET r == HashDirectory(engine, call.path, call.fs0[call.path], e,
                                   clock).result
            IN  /\ Combined(e) = Combined(call.enum)
                /\ r.sha256 = ret.result.sha256
                /\ r.sha_infinity = ret.result.sha_infinity
                /\ r.metadata.file_count = ret.result.metadata.file_count
                /\ r.metadata.files = ret.result.metadata.files

DirectoryOrderInvariantWitness ==
    /\ call.op = "hash_directory"
    /\ ret.status = "ok"
    /\ Len(call.enum) = 3
    /\ call.enum # Sorted(call.enum)
    /\ ret.result.metadata.file_count = 2

\* The regular files of a tree: relative path and content
FilesOf(entries) == {<<e.rel, e.content>> : e \in {x \in entries : x.kind = "file"}}

\* C10: two trees whose sets of regular files differ (content, added, removed
\* or renamed file) give different combined strings, hence different sha256
\* and sha_infinity, for every legal file name.
DirectoryHashSeparatesTrees ==
    (call.op = "hash_directory" /\ ret.status = "ok") =>
        \A other \in DirStates :
            FilesOf(other) # FilesOf(call.fs0[call.path].entries) =>
                \A e \in Enumerations(other) :
                    LET r == HashDirectory(engine, call.path, DirNode(other), e,
                                           clock).result
                    IN  /\ Combined(e) # Combined(call.enum)
                        /\ r.sha256 # ret.result.sha256
                        /\ r.sha_infinity # ret.result.sha_infinity

\* C12: the lines of hash_directory's combined string are in the
\* character-by-character string order of the relative paths written in
\* them (the files list holds these paths, in line order).
LinesInStringOrder ==
    (call.op = "hash_directory" /\ ret.status = "ok") =>
        LET files == ret.result.metadata.files
        IN  \A i, j \in 1..Len(files) : i < j => ~StrLess(files[j], files[i])

----------------------------------------------------------------------------
(* Claims about the state manager *)

\* The priority order of the class docstring: Cloudflare KV, Salesforce,
\* local file, as far as configured
DocumentedOrder(backends) ==
    SelectSeq(<<"cloudflare", "salesforce", "local">>,
              LAMBDA b : \E k \in DOMAIN backends : backends[k] = b)

\* C14: StateManager.get returns the record of the first backend, in the
\* order Cloudflare KV, Salesforce, local file, that has one for the key,
\* and None when none has.
GetFollowsDocumentedOrder ==
    call.op = "get" =>
        ret.record = GetFrom(sm, DocumentedOrder(sm.backends), call.key,
                             clock, call.up)

\* C15: in the report of StateManager.sync, synced is the number of puts
\* that succeeded and every put that returned False has an entry in errors.
SyncReportsFailures ==
    call.op = "sync" =>
        /\ ret.report.synced
             = Cardinality({i \in DOMAIN ret.puts : ret.puts[i].ok})
        /\ \A i \in DOMAIN ret.puts :
             ~ret.puts[i].ok =>
                \E e \in DOMAIN ret.report.errors :
                    /\ ret.report.errors[e].record = ret.puts[i].record
                    /\ ret.report.errors[e].backend = ret.puts[i].backend

\* The Salesforce objects created by puts of the record with this id
CreatedFor(st, id) == {n \in DOMAIN st.created : st.created[n] = id}

\* C16: with the local and Salesforce backends configured, an update_status
\* call creates no Salesforce object for a record that already has one: the
\* put updates the object created first.
UpdateCreatesNoSecondObject ==
    [][(sm.backends = <<"local", "salesforce">> /\ call'.op = "update_status")
         => \A n \in DOMAIN sm.created :
              CreatedFor(sm', sm.created[n]) = CreatedFor(sm, sm.created[n])]_vars

====
